---- MODULE Spec2Model ----
(***************************************************************************)
(* A model of fsmlib: NFA / DFA acceptors, subset construction, DFA        *)
(* completion, and the Moore / Mealy transducers with Mealy persistence.   *)
(*                                                                         *)
(* Python values are modelled as follows.  A state object of an NFA is     *)
(* identified by its name (the NFA graphs are never copied).  DFAState     *)
(* objects live in a heap, a sequence of records addressed by position,    *)
(* so that deepcopy and the objects made by nfa_to_dfa have identities of  *)
(* their own.  None is the string "None" where a name is expected and the  *)
(* address 0 where a heap address is expected.  A raised exception is the  *)
(* name of its class in the field 'raised' of the last call's record.      *)
(***************************************************************************)
EXTENDS Naturals, Sequences, FiniteSets, TLC

VARIABLES
    kind,        \* which kind of machine this run builds and drives
    pc,          \* "build": states are being wired; "run": a machine wraps them
    nfaTrans,    \* NFAState.transitions of every NFA state: name -> symbol -> set of names
    nfaAccepting,\* names of the NFA states created with accepting=True
    nfa,         \* the NFA object: initial, current, alphabet, empty_char
    heap,        \* DFAState objects: address -> [name, initial, accepting, transitions]
    dfa,         \* the DFA object: initial, current (heap addresses), alphabet
    cdfa,        \* the DFA object returned by complete_dfa(dfa)
    ccdfa,       \* the DFA object returned by complete_dfa(complete_dfa(dfa))
    mooreStates, \* MooreState objects: name -> [initial, accepting, output, transitions]
    moore,       \* the MooreMachine object: initial, current, alphabet
    mealyStates, \* MealyState objects of the machine built ("m") and of the machine loaded ("l")
    mealy,       \* the MealyMachine objects "m" and "l": initial, current, alphabet
    file,        \* the JSON document written by MealyMachine.save
    ret          \* the last call: its name, argument, returned value, raised exception

nfaVars == <<nfaTrans, nfaAccepting, nfa>>
dfaVars == <<heap, dfa, cdfa, ccdfa>>
mooreVars == <<mooreStates, moore>>
mealyVars == <<mealyStates, mealy, file>>
vars == <<kind, pc, nfaVars, dfaVars, mooreVars, mealyVars, ret>>

-----------------------------------------------------------------------------
(* Bounds of the model *)

MaxEdges == 2       \* transitions wired into one graph by add_transition
MaxLen == 2         \* length of the sequences given to accept
MaxSubsetEdges == 5 \* transitions of the larger NFAs given to the subset construction alone

(* Universe of the NFA scenario *)

NFANames == {"p", "q", "p+q"}
Symbols == {"a", "b", "~"}
NFATargets == SUBSET NFANames \ {{}}
NFAAcceptingSets == {{"q"}, {"p", "p+q"}}
Alphabets == {<<"a", "b">>, <<"a", "~">>}
EmptyChars == {"~"}
EclosureArgs == {{}, {"p"}, {"q", "p+q"}}    \* the sets nfa_eclosure is called on directly

(* Universe of the DFA scenario: q0 is created with initial=True *)

DFANames == <<"q0", "q1", "q2">>
DFASymbols == {"a", "b"}
DFAAlphabet == <<"a", "b">>
DFAShortAlphabet == <<"a">>    \* leaves the symbol b outside the alphabet
DFAAcceptingSets == {{1}, {3}, {2, 3}}

(* Universe of the Moore scenario: m0 is created with initial=True *)

MooreNames == {"m0", "m1"}
MooreOutput == ("m0" :> "lo") @@ ("m1" :> "hi")
MooreSymbols == {"a", "b"}
MooreAlphabet == <<"a", "b">>

(* Universe of the Mealy scenario.  The states are created with the initial  *)
(* flags of one of MealyInitialSets: none (tests/test_transducers.py), the   *)
(* state given to the machine (main.py), another state, or both.             *)

MealyNames == {"q0", "q1"}
MealyInitialSets == {{}, {"q0"}, {"q1"}, {"q0", "q1"}}
MealyAccepting == {"q1"}
MealySymbols == {"a", "b"}
MealyAlphabet == <<"a", "b">>
OutputFuns == {"None", "error_strawberry", "lambda"}

RECURSIVE SeqsUpTo(_, _)
SeqsUpTo(S, n) ==
    IF n = 0 THEN {<<>>}
    ELSE LET shorter == SeqsUpTo(S, n - 1)
         IN shorter \cup {Append(s, c) : s \in {t \in shorter : Len(t) = n - 1}, c \in S}

Range(f) == {f[i] : i \in DOMAIN f}

InputSeqs == SeqsUpTo({"a", "b"}, MaxLen)

RECURSIVE Sum(_, _)
Sum(f, S) == IF S = {} THEN 0 ELSE LET x == CHOOSE y \in S : TRUE IN f[x] + Sum(f, S \ {x})

\* how many transitions the states of a graph hold
NFAEdgeCount(trans) ==
    Sum([e \in NFANames \X Symbols |-> Cardinality(trans[e[1]][e[2]])], NFANames \X Symbols)
DFAEdgeCount(h) == Sum([a \in DOMAIN h |-> Cardinality(DOMAIN h[a].transitions)], DOMAIN h)

-----------------------------------------------------------------------------
(* Values *)

NoCall == [op |-> "none", arg |-> <<>>, val |-> "None", raised |-> "None"]
Call(op, arg, val, raised) == [op |-> op, arg |-> arg, val |-> val, raised |-> raised]

NoNFA == [initial |-> "None", current |-> "None", alphabet |-> <<>>, empty_char |-> "None"]
NoDFA == [initial |-> 0, current |-> 0, alphabet |-> <<>>]
NoMachine == [initial |-> "None", current |-> "None", alphabet |-> <<>>]
NoFile == [states |-> <<>>, transitions |-> {}, alphabet |-> <<>>, current |-> "None"]

EmptyDict == [x \in {} |-> 0]

\* Python's bool as returned to the caller
PyBool(b) == IF b THEN "True" ELSE "False"

-----------------------------------------------------------------------------
(* NFAState *)

\* NFAState.transitions defaults to defaultdict(set)
NFAStateNewTransitions == [c \in Symbols |-> {}]

\* an add_transition that replaces the set kept for the symbol
NFAStateAddTransitionReplaces(trans, src, symbol, target) ==
    [trans EXCEPT ![src][symbol] = target]

\* NFAState.add_transition: the targets are united into the set kept for the symbol
NFAStateAddTransition(trans, src, symbol, target) ==
    [trans EXCEPT ![src][symbol] = @ \cup target]

\* a transition that finds no target for any symbol
NFAStateTransitionEmpty(trans, node, symbol) == {}

\* NFAState.transition
NFAStateTransition(trans, node, symbol) == trans[node][symbol]

-----------------------------------------------------------------------------
(* NFA.__init__ *)

\* the fields NFA.__init__ sets
NFANew(initial, alphabet, empty_char) ==
    [initial |-> initial, current |-> initial, alphabet |-> alphabet, empty_char |-> empty_char]

\* 'if self.empty_char in self.alphabet: raise ValueError'
\* a constructor without the membership test
NFAInitUnchecked(alphabet, empty_char) == FALSE

NFAInitRaises(alphabet, empty_char) == empty_char \in Range(alphabet)

-----------------------------------------------------------------------------
(* NFA.accept *)

(* The outcome of one of _accept's for-loops, entered with result = False,   *)
(* over a Python set whose iteration order is not fixed: outs holds, for     *)
(* every target, the possible outcomes of the recursive call on it.  The     *)
(* first call that does not return False decides: True stops the calls that  *)
(* follow (result or ...), an exception leaves the loop.                     *)
LoopOutcomes(outs) ==
    {o \in {"True", "RecursionError"} : \E s \in outs : o \in s}
      \cup {o \in {"False"} : \A s \in outs : o \in s}

(* NFA._accept(sequence, node).  The code keeps no visited set; path holds   *)
(* the nodes of the active calls that have the same remaining sequence.  A   *)
(* call on a node of path repeats an active call, so the recursion never     *)
(* ends and the interpreter raises RecursionError.                           *)
RECURSIVE NFAAcceptRec(_, _, _, _, _, _)
NFAAcceptRec(trans, accepting, empty_char, sequence, node, path) ==
    IF Len(sequence) = 0
    THEN {PyBool(node \in accepting)}
    ELSE LET byChar == LoopOutcomes(
                 {NFAAcceptRec(trans, accepting, empty_char, Tail(sequence), t, {t}) :
                     t \in NFAStateTransition(trans, node, Head(sequence))})
             byEmpty == LoopOutcomes(
                 {IF t \in path THEN {"RecursionError"}
                  ELSE NFAAcceptRec(trans, accepting, empty_char, sequence, t, path \cup {t}) :
                     t \in NFAStateTransition(trans, node, empty_char)})
         IN (byChar \cap {"True", "RecursionError"})
              \cup (IF "False" \in byChar THEN byEmpty ELSE {})

\* NFA.accept: the possible outcomes of accept(sequence)
NFAAcceptOutcomes(trans, accepting, n, sequence) ==
    NFAAcceptRec(trans, accepting, n.empty_char, sequence, n.initial, {n.initial})

-----------------------------------------------------------------------------
(* DFAState and DFA *)

\* DFAState(name, initial, accepting, transitions={})
DFAStateNew(name, initial, accepting) ==
    [name |-> name, initial |-> initial, accepting |-> accepting, transitions |-> EmptyDict]

\* DFAState.add_transition: self.transitions[symbol] = target (the last write wins)
DFAStateAddTransition(h, src, symbol, target) ==
    [h EXCEPT ![src].transitions =
        [c \in (DOMAIN @) \cup {symbol} |-> IF c = symbol THEN target ELSE @[c]]]

\* DFAState.transition: self.transitions[symbol], KeyError when the symbol is no key
DFAStateTransition(h, src, symbol) ==
    IF symbol \in DOMAIN h[src].transitions
    THEN [val |-> h[src].transitions[symbol], raised |-> "None"]
    ELSE [val |-> "None", raised |-> "KeyError"]

\* DFA.__init__
DFANew(initial, alphabet) == [initial |-> initial, current |-> initial, alphabet |-> alphabet]

(* DFA._accept(sequence), run on the object d over the heap h: the value     *)
(* returned and the DFA object as the call leaves it.                        *)
\* a missing-transition branch that returns False and leaves the cursor where it is
DFAAcceptMissingNoReset(d) == [val |-> "False", dfa |-> d]

\* 'if char not in self.current.transitions: self.current = self.initial; return False'
DFAAcceptMissing(d) == [val |-> "False", dfa |-> [d EXCEPT !.current = d.initial]]

RECURSIVE DFAAcceptRec(_, _, _)
DFAAcceptRec(h, d, sequence) ==
    IF Len(sequence) = 0 /\ h[d.current].accepting
    THEN [val |-> "True", dfa |-> [d EXCEPT !.current = d.initial]]
    ELSE IF Len(sequence) = 0
    THEN [val |-> "False", dfa |-> [d EXCEPT !.current = d.initial]]
    ELSE IF Head(sequence) \notin DOMAIN h[d.current].transitions
    THEN DFAAcceptMissing(d)
    ELSE DFAAcceptRec(h, [d EXCEPT !.current = h[d.current].transitions[Head(sequence)]],
                      Tail(sequence))

(* DFA.process(x): self.current = self.current.transition(x), where          *)
(* DFAState.transition is self.transitions[symbol] and raises KeyError       *)
(* before the assignment when the symbol is no key.                          *)
\* a step that substitutes the initial state for a missing transition
DFAProcessDefault(h, d, x) ==
    IF x \in DOMAIN h[d.current].transitions
    THEN [dfa |-> [d EXCEPT !.current = h[d.current].transitions[x]], raised |-> "None"]
    ELSE [dfa |-> [d EXCEPT !.current = d.initial], raised |-> "None"]

DFAProcessCall(h, d, x) ==
    IF x \in DOMAIN h[d.current].transitions
    THEN [dfa |-> [d EXCEPT !.current = h[d.current].transitions[x]], raised |-> "None"]
    ELSE [dfa |-> d, raised |-> "KeyError"]

\* DFA.accept
DFAAcceptCall(h, d, sequence) == DFAAcceptRec(h, d, sequence)

(* DFA._traversal(result, current).  The code walks current.transitions in   *)
(* the order of the dict; the set it returns is the same in every order, and *)
(* the model walks the symbols not yet visited, todo, in an order of its     *)
(* own.  Membership in result is by name and fields in the code and by       *)
(* address here: the names of one graph are distinct.                        *)
RECURSIVE DFATraversalLoop(_, _, _, _)
DFATraversalLoop(h, result, current, todo) ==
    IF todo = {} THEN result
    ELSE LET symbol == CHOOSE c \in todo : TRUE
             node == h[current].transitions[symbol]
             seen == IF node \notin result
                     THEN result \cup {node}
                            \cup DFATraversalLoop(h, result \cup {node}, node,
                                                  DOMAIN h[node].transitions)
                     ELSE result
         IN DFATraversalLoop(h, seen, current, todo \ {symbol})

\* a traversal that stops at the direct successors
DFATraversalShallow(h, result, current) == result \cup Range(h[current].transitions)

DFATraversal(h, result, current) ==
    DFATraversalLoop(h, result, current, DOMAIN h[current].transitions)

\* DFA.states
DFAStates(h, d) == DFATraversal(h, {d.initial}, d.initial)

\* a completeness test that looks at every state, reachable or not
DFACompleteEverywhere(h, d) ==
    \A state \in DOMAIN h : Range(d.alphabet) \ DOMAIN h[state].transitions = {}

\* DFA.complete
DFAComplete(h, d) ==
    \A state \in DFAStates(h, d) : Range(d.alphabet) \ DOMAIN h[state].transitions = {}

-----------------------------------------------------------------------------
(* Subset construction *)

\* Python's order of the state names, as sorted() uses it: "p" < "p+q" < "q"
NameRank == ("p" :> 1) @@ ("p+q" :> 2) @@ ("q" :> 3)

\* sorted(state.name for state in q)
RECURSIVE SortedNames(_)
SortedNames(q) ==
    IF q = {} THEN <<>>
    ELSE LET first == CHOOSE x \in q : \A y \in q : NameRank[x] <= NameRank[y]
         IN <<first>> \o SortedNames(q \ {first})

\* sep.join(names)
RECURSIVE Join(_, _)
Join(sep, names) ==
    IF Len(names) = 0 THEN ""
    ELSE IF Len(names) = 1 THEN names[1]
    ELSE names[1] \o sep \o Join(sep, Tail(names))

\* "+".join(sorted(state.name for state in q))
SubsetName(q) == Join("+", SortedNames(q))

(* nfa_eclosure(nfa, sub): err when the recursion does not end, else the set *)
(* returned.  The code keeps no visited set; path holds the states of the    *)
(* active recursive calls, and a call on one of them repeats an active call. *)
RECURSIVE NfaEclosureRec(_, _, _, _)
NfaEclosureRec(trans, empty_char, sub, path) ==
    LET targets == UNION {trans[state][empty_char] : state \in sub}
        inner == {NfaEclosureRec(trans, empty_char, {t}, path \cup {t}) : t \in targets \ path}
    IN IF targets \cap path # {} \/ \E r \in inner : r.err
       THEN [err |-> TRUE, val |-> {}]
       ELSE [err |-> FALSE, val |-> sub \cup targets \cup UNION {r.val : r \in inner}]

NfaEclosure(trans, empty_char, sub) == NfaEclosureRec(trans, empty_char, sub, {})

\* nfa_move(sub, char)
NfaMove(trans, sub, char) == UNION {trans[state][char] : state \in sub}

\* a flag that asks every member of the subset to be accepting
AllAccepting(accepting, q) == \A state \in q : state \in accepting

\* any([state.accepting for state in q])
AnyAccepting(accepting, q) == \E state \in q : state \in accepting

(* The body of 'for symbol in nfa.alphabet' of nfa_to_dfa, from the i-th     *)
(* symbol on, for the popped pair (nfa_states, dfa_state).  st holds the     *)
(* locals unmarked and new_states, the heap, and err once nfa_eclosure has   *)
(* raised.  Two records of the run ride along: enqueued, every pair ever     *)
(* appended to unmarked, and stands, every pair (q, dfa_q) the body held     *)
(* when it wrote 'dfa_state.transitions[symbol] = dfa_q'.                    *)
RECURSIVE NfaToDfaFor(_, _, _, _, _, _, _)
NfaToDfaFor(trans, accepting, n, nfa_states, dfa_state, i, st) ==
    IF st.err \/ i > Len(n.alphabet) THEN st
    ELSE LET symbol == n.alphabet[i]
             q == NfaEclosure(trans, n.empty_char, NfaMove(trans, nfa_states, symbol))
             name == SubsetName(q.val)
             fresh == Len(st.heap) + 1
         IN IF q.err THEN [st EXCEPT !.err = TRUE]
            ELSE IF q.val = {} THEN NfaToDfaFor(trans, accepting, n, nfa_states, dfa_state, i + 1, st)
            ELSE IF name \notin DOMAIN st.new_states
            THEN NfaToDfaFor(trans, accepting, n, nfa_states, dfa_state, i + 1,
                    [st EXCEPT
                       !.heap = DFAStateAddTransition(
                                   Append(@, DFAStateNew(name, FALSE, AnyAccepting(accepting, q.val))),
                                   dfa_state, symbol, fresh),
                       !.new_states = (name :> fresh) @@ @,
                       !.unmarked = Append(@, <<q.val, fresh>>),
                       !.enqueued = Append(@, <<q.val, fresh>>),
                       !.stands = @ \cup {<<q.val, fresh>>}])
            ELSE NfaToDfaFor(trans, accepting, n, nfa_states, dfa_state, i + 1,
                    [st EXCEPT
                       !.heap = DFAStateAddTransition(@, dfa_state, symbol, st.new_states[name]),
                       !.stands = @ \cup {<<q.val, st.new_states[name]>>}])

\* The worklist discipline of nfa_to_dfa: unmarked.pop() takes the last pair
NfaToDfaPop(unmarked) ==
    [item |-> unmarked[Len(unmarked)], rest |-> SubSeq(unmarked, 1, Len(unmarked) - 1)]

\* 'while has_unmarked' of nfa_to_dfa
RECURSIVE NfaToDfaWhile(_, _, _, _)
NfaToDfaWhile(trans, accepting, n, st) ==
    IF st.err \/ Len(st.unmarked) = 0 THEN st
    ELSE LET popped == NfaToDfaPop(st.unmarked)
         IN NfaToDfaWhile(trans, accepting, n,
               NfaToDfaFor(trans, accepting, n, popped.item[1], popped.item[2], 1,
                           [st EXCEPT !.unmarked = popped.rest]))

\* nfa_to_dfa up to the loop: q0, dfa_q0, and the two containers holding them
NfaToDfaStart(trans, accepting, n, h) ==
    LET q0 == NfaEclosure(trans, n.empty_char, {n.initial})
        dfa_q0 == Len(h) + 1
        name0 == SubsetName(q0.val)
    IN [err |-> FALSE,
        heap |-> Append(h, DFAStateNew(name0, TRUE, AnyAccepting(accepting, q0.val))),
        new_states |-> (name0 :> dfa_q0),
        unmarked |-> << <<q0.val, dfa_q0>> >>,
        enqueued |-> << <<q0.val, dfa_q0>> >>,
        stands |-> {<<q0.val, dfa_q0>>}]

(* nfa_to_dfa(nfa) over the heap h: err when nfa_eclosure raised, else the   *)
(* heap with the new DFAState objects and the DFA returned.                  *)
NfaToDfa(trans, accepting, n, h) ==
    LET q0 == NfaEclosure(trans, n.empty_char, {n.initial})
        dfa_q0 == Len(h) + 1
        st == NfaToDfaWhile(trans, accepting, n, NfaToDfaStart(trans, accepting, n, h))
    IN IF q0.err \/ st.err
       THEN [err |-> TRUE, heap |-> h, dfa |-> NoDFA, enqueued |-> <<>>, stands |-> {}]
       ELSE [err |-> FALSE, heap |-> st.heap, dfa |-> DFANew(dfa_q0, n.alphabet),
             enqueued |-> st.enqueued, stands |-> st.stands]

-----------------------------------------------------------------------------
(* complete_dfa *)

\* the objects deepcopy reaches from the addresses in from
RECURSIVE Reachable(_, _)
Reachable(h, from) ==
    LET more == from \cup UNION {Range(h[a].transitions) : a \in from}
    IN IF more = from THEN from ELSE Reachable(h, more)

\* the number of addresses of S below a
IndexIn(S, a) == Cardinality({b \in S : b < a})

\* a copy that shares every DFAState with the original
ShallowCopy(h, d) == [heap |-> h, dfa |-> d]

(* deepcopy(dfa) over the heap h: every DFAState reached from the DFA object *)
(* (from initial and from current) gets one new object, and the references   *)
(* among the copies mirror those among the originals.                        *)
Deepcopy(h, d) ==
    LET old == Reachable(h, {d.initial, d.current})
        new(a) == Len(h) + 1 + IndexIn(old, a)
        copy(a) == [h[a] EXCEPT !.transitions = [c \in DOMAIN @ |-> new(@[c])]]
        orig(n) == CHOOSE a \in old : new(a) = n
    IN [heap |-> h \o [i \in 1..Cardinality(old) |-> copy(orig(Len(h) + i))],
        dfa |-> [initial |-> new(d.initial), current |-> new(d.current), alphabet |-> d.alphabet]]

\* a sink left without its self loops
SinkWithoutLoops(h, q, alphabet) == h

\* 'for symbol in new_dfa.alphabet: q.transitions[symbol] = q'
SinkLoops(h, q, alphabet) ==
    [h EXCEPT ![q].transitions = [c \in Range(alphabet) |-> q]]

\* missing symbols wired back to the state itself instead of the sink
FillMissingWithSelf(h, states, q, alphabet) ==
    [a \in DOMAIN h |->
        IF a \in states
        THEN [h[a] EXCEPT !.transitions =
                [c \in (DOMAIN @) \cup Range(alphabet) |-> IF c \in DOMAIN @ THEN @[c] ELSE a]]
        ELSE h[a]]

\* a fill that sends every alphabet symbol to the sink, the transitions already there included
FillMissingRedirects(h, states, q, alphabet) ==
    [a \in DOMAIN h |->
        IF a \in states
        THEN [h[a] EXCEPT !.transitions =
                [c \in (DOMAIN @) \cup Range(alphabet) |-> IF c \in Range(alphabet) THEN q ELSE @[c]]]
        ELSE h[a]]

\* 'for state in new_dfa.states: for symbol in <missing>: state.transitions[symbol] = q'
FillMissing(h, states, q, alphabet) ==
    [a \in DOMAIN h |->
        IF a \in states
        THEN [h[a] EXCEPT !.transitions =
                [c \in (DOMAIN @) \cup Range(alphabet) |-> IF c \in DOMAIN @ THEN @[c] ELSE q]]
        ELSE h[a]]

\* a completion that adds a sink without asking whether the DFA is complete
CompleteDfaAlwaysSink(h, d) ==
    LET cp == Deepcopy(h, d)
        q == Len(cp.heap) + 1
        withSink == SinkLoops(Append(cp.heap, DFAStateNew("q'", FALSE, FALSE)), q, cp.dfa.alphabet)
    IN [heap |-> FillMissing(withSink, DFAStates(withSink, cp.dfa), q, cp.dfa.alphabet),
        dfa |-> cp.dfa]

\* complete_dfa(dfa) over the heap h: the heap with the new objects and the DFA returned
CompleteDfa(h, d) ==
    IF DFAComplete(h, d)
    THEN Deepcopy(h, d)
    ELSE LET cp == Deepcopy(h, d)
             q == Len(cp.heap) + 1
             withSink == SinkLoops(Append(cp.heap, DFAStateNew("q'", FALSE, FALSE)), q, cp.dfa.alphabet)
         IN [heap |-> FillMissing(withSink, DFAStates(withSink, cp.dfa), q, cp.dfa.alphabet),
             dfa |-> cp.dfa]

-----------------------------------------------------------------------------
(* MooreState and MooreMachine *)

\* MooreState(name, initial, accepting, output=...), transitions={}
MooreStateNew(initial, accepting, output) ==
    [initial |-> initial, accepting |-> accepting, output |-> output, transitions |-> EmptyDict]

\* MooreState.add_transition: self.transitions[symbol] = target
MooreStateAddTransition(states, src, symbol, target) ==
    [states EXCEPT ![src].transitions =
        [c \in (DOMAIN @) \cup {symbol} |-> IF c = symbol THEN target ELSE @[c]]]

\* MooreMachine.__init__ and MealyMachine.__init__
MachineNew(initial, alphabet) == [initial |-> initial, current |-> initial, alphabet |-> alphabet]

(* MooreMachine.forward(symbol): self.current = self.current.transition(symbol); *)
(* return self.current.output.  MooreState.transition raises KeyError before     *)
(* the assignment when the symbol is no key.                                     *)
MooreForwardCall(states, m, symbol) ==
    IF symbol \in DOMAIN states[m.current].transitions
    THEN LET target == states[m.current].transitions[symbol]
         IN [machine |-> [m EXCEPT !.current = target], val |-> states[target].output,
             raised |-> "None"]
    ELSE [machine |-> m, val |-> "None", raised |-> "KeyError"]

\* a reset that leaves the cursor where it is
ResetNothing(m) == m

\* MooreMachine.reset and MealyMachine.reset: self.current = self.initial
ResetCall(m) == [m EXCEPT !.current = m.initial]

-----------------------------------------------------------------------------
(* MealyState and MealyMachine *)

\* MealyState(name, transitions={}, initial, accepting)
MealyStateNew(initial, accepting) ==
    [initial |-> initial, accepting |-> accepting, transitions |-> EmptyDict]

\* MealyState.add_transition: self.transitions[symbol] = (target, output_fun)
MealyStateAddTransition(states, src, symbol, target, output_fun) ==
    [states EXCEPT ![src].transitions =
        [c \in (DOMAIN @) \cup {symbol} |->
            IF c = symbol THEN [to |-> target, fun |-> output_fun] ELSE @[c]]]

\* what an output function returns: the functions of the repository ignore their argument
Apply(output_fun, symbol) ==
    IF output_fun = "error_strawberry"
    THEN "Error: three strawberry lollipops in a row"
    ELSE "Normal operation"

\* a transition that never invokes the function bound to the edge
MealyStateTransitionNoOutput(states, state, symbol) ==
    [state |-> states[state].transitions[symbol].to, output |-> "None"]

(* MealyState.transition(symbol): state, output_fun = self.transitions[symbol]; *)
(* output = output_fun(symbol) if output_fun else None                          *)
MealyStateTransition(states, state, symbol) ==
    LET edge == states[state].transitions[symbol]
    IN [state |-> edge.to,
        output |-> IF edge.fun # "None" THEN Apply(edge.fun, symbol) ELSE "None"]

(* MealyMachine.forward(symbol): self.current, output = self.current.transition(symbol). *)
(* With current = None the attribute lookup raises AttributeError; a symbol that is no   *)
(* key raises KeyError before the assignment.                                            *)
MealyForwardCall(states, m, symbol) ==
    IF m.current = "None"
    THEN [machine |-> m, val |-> "None", raised |-> "AttributeError"]
    ELSE IF symbol \notin DOMAIN states[m.current].transitions
    THEN [machine |-> m, val |-> "None", raised |-> "KeyError"]
    ELSE LET t == MealyStateTransition(states, m.current, symbol)
         IN [machine |-> [m EXCEPT !.current = t.state], val |-> t.output, raised |-> "None"]

(* MealyMachine.process(seq) from position pos on: forward per symbol, the   *)
(* truthy outputs printed with their position, then reset.  An exception of  *)
(* forward leaves the loop and the method.                                   *)
RECURSIVE MealyProcessLoop(_, _, _, _, _)
MealyProcessLoop(states, m, seq, pos, printed) ==
    IF pos > Len(seq)
    THEN [machine |-> ResetCall(m), printed |-> printed, raised |-> "None"]
    ELSE LET r == MealyForwardCall(states, m, seq[pos])
         IN IF r.raised # "None"
            THEN [machine |-> r.machine, printed |-> printed, raised |-> r.raised]
            ELSE MealyProcessLoop(states, r.machine, seq, pos + 1,
                    IF r.val # "None" THEN Append(printed, <<r.val, pos>>) ELSE printed)

\* a process that walks from the initial state whatever the cursor is
MealyProcessFromInitial(states, m, seq) == MealyProcessLoop(states, ResetCall(m), seq, 1, <<>>)

MealyProcessCall(states, m, seq) == MealyProcessLoop(states, m, seq, 1, <<>>)

(* helper(state, visited, hierarchy) of MealyMachine._traverse_and_apply: the *)
(* names visited once the walk from state, over the symbols todo, is done.    *)
RECURSIVE MealyHelperLoop(_, _, _, _)
MealyHelperLoop(states, state, visited, todo) ==
    IF todo = {} THEN visited
    ELSE LET symbol == CHOOSE c \in todo : TRUE
             target == states[state].transitions[symbol].to
             seen == IF target \in visited THEN visited
                     ELSE MealyHelperLoop(states, target, visited \cup {target},
                                          DOMAIN states[target].transitions)
         IN MealyHelperLoop(states, state, seen, todo \ {symbol})

\* MealyMachine.states: the states the walk from self.initial visits
MealyMachineStates(states, m) ==
    MealyHelperLoop(states, m.initial, {m.initial}, DOMAIN states[m.initial].transitions)

\* MealyState.state_dict
StateDict(states, name) ==
    [name |-> name, initial |-> states[name].initial, accepting |-> states[name].accepting,
     transitions |-> EmptyDict]

(* inspect.getsource(output_fun): the text of a def statement, or, for a     *)
(* lambda, the source line that holds it (here an indented call inside a     *)
(* function, as in tests/test_transducers.py).                               *)
GetSource(output_fun) ==
    IF output_fun = "error_strawberry"
    THEN "def error_strawberry(ch: str): return 'Error: three strawberry lollipops in a row'"
    ELSE "    q0.add_transition('a', q0, output_fun=lambda x: 'Normal operation')"

\* MealyState.transitions_list
TransitionsList(states, name) ==
    {[from |-> name, symbol |-> symbol, to |-> states[name].transitions[symbol].to,
      output_fun |-> IF states[name].transitions[symbol].fun # "None"
                     THEN GetSource(states[name].transitions[symbol].fun)
                     ELSE "None"] :
        symbol \in DOMAIN states[name].transitions}

(* MealyMachine.save: the document written, with the states listed in the    *)
(* order 'order' in which the set self.states happens to be iterated.        *)
SaveDocument(states, m, order) ==
    [states |-> [i \in DOMAIN order |-> StateDict(states, order[i])],
     transitions |-> UNION {TransitionsList(states, name) : name \in MealyMachineStates(states, m)},
     alphabet |-> m.alphabet,
     current |-> m.current]

\* the orders in which a set can be listed
Orders(S) == {o \in [1..Cardinality(S) -> S] : Range(o) = S}

(* exec(source): runs the statements and returns None; the text of a def     *)
(* statement runs, an indented line raises IndentationError.                 *)
Exec(source) ==
    [val |-> "None",
     raised |-> IF SubSeq(source, 1, 4) = "def " THEN "None" ELSE "IndentationError"]

\* the names of the persisted states: the keys of the dict 'states' of load
LoadNames(doc) == {doc.states[i].name : i \in DOMAIN doc.states}

\* 'if state.initial: initial_state = state' over the list: the last state flagged, else None
LoadInitial(doc) ==
    LET flagged == {i \in DOMAIN doc.states : doc.states[i].initial}
    IN IF flagged = {} THEN "None"
       ELSE doc.states[CHOOSE i \in flagged : \A j \in flagged : j <= i].name

\* a wiring that skips the lookups of the two state names
LoadTransitionLenient(doc, t) ==
    IF t.from \in LoadNames(doc) /\ t.to \in LoadNames(doc) /\ t.output_fun # "None"
    THEN Exec(t.output_fun).raised
    ELSE "None"

(* What wiring one persisted transition raises: states[from] and states[to]  *)
(* raise KeyError for a name that is no key, then exec runs the text.        *)
LoadTransitionRaised(doc, t) ==
    IF t.from \notin LoadNames(doc) \/ t.to \notin LoadNames(doc) THEN "KeyError"
    ELSE IF t.output_fun # "None" THEN Exec(t.output_fun).raised
    ELSE "None"

(* The exceptions MealyMachine.load can end with ("None": it returns): that  *)
(* of the first transition of the list that fails, else KeyError for a       *)
(* cursor name that is no key.                                               *)
LoadRaised(doc) ==
    LET failing == {LoadTransitionRaised(doc, t) : t \in doc.transitions} \ {"None"}
    IN IF failing # {} THEN failing
       ELSE IF doc.current \notin LoadNames(doc) THEN {"KeyError"}
       ELSE {"None"}

\* the MealyState objects load builds: the flags of state_dict, then add_transition per entry
LoadStates(doc) ==
    [name \in LoadNames(doc) |->
        LET d == doc.states[CHOOSE i \in DOMAIN doc.states : doc.states[i].name = name]
            out == {t \in doc.transitions : t.from = name}
        IN [initial |-> d.initial,
            accepting |-> d.accepting,
            transitions |->
                [symbol \in {t.symbol : t \in out} |->
                    LET t == CHOOSE u \in out : u.symbol = symbol
                    IN [to |-> t.to,
                        fun |-> IF t.output_fun # "None" THEN Exec(t.output_fun).val
                                ELSE "None"]]]]

\* 'machine = MealyMachine(initial_state, alphabet); machine.current = states[current]'
LoadMachine(doc) ==
    [MachineNew(LoadInitial(doc), doc.alphabet) EXCEPT !.current = doc.current]

-----------------------------------------------------------------------------
(* Scenario: an NFA *)

IdleNFA ==
    /\ nfaTrans = [s \in NFANames |-> NFAStateNewTransitions]
    /\ nfaAccepting = {}
    /\ nfa = NoNFA
IdleDFA ==
    /\ heap = <<>>
    /\ dfa = NoDFA
    /\ cdfa = NoDFA
    /\ ccdfa = NoDFA
IdleMoore ==
    /\ mooreStates = EmptyDict
    /\ moore = NoMachine
IdleMealy ==
    /\ mealyStates = [tag \in {"m", "l"} |-> EmptyDict]
    /\ mealy = [tag \in {"m", "l"} |-> NoMachine]
    /\ file = NoFile

InitNFA ==
    /\ kind = "nfa"
    /\ pc = "build"
    /\ nfaTrans = [s \in NFANames |-> NFAStateNewTransitions]
    /\ nfaAccepting \in NFAAcceptingSets
    /\ nfa = NoNFA
    /\ IdleDFA /\ IdleMoore /\ IdleMealy
    /\ ret = NoCall

\* state.add_transition(symbol, target) on an NFAState
NFAAddTransition(src, symbol, target) ==
    /\ kind = "nfa"
    /\ pc = "build"
    /\ nfaTrans' = NFAStateAddTransition(nfaTrans, src, symbol, target)
    /\ NFAEdgeCount(nfaTrans') <= MaxEdges
    /\ ret' = Call("NFAState.add_transition", <<src, symbol, target>>, "None", "None")
    /\ UNCHANGED <<kind, pc, nfaAccepting, nfa, dfaVars, mooreVars, mealyVars>>

\* state.transition(symbol) on an NFAState, before a machine is made of the graph
NFAStateGetTransition(src, symbol) ==
    /\ kind = "nfa"
    /\ pc = "build"
    /\ ret' = Call("NFAState.transition", <<src, symbol>>,
                   NFAStateTransition(nfaTrans, src, symbol), "None")
    /\ UNCHANGED <<kind, pc, nfaVars, dfaVars, mooreVars, mealyVars>>

\* NFA(initial, alphabet, empty_char)
NFAInit(initial, alphabet, empty_char) ==
    /\ kind = "nfa"
    /\ pc = "build"
    /\ IF NFAInitRaises(alphabet, empty_char)
       THEN /\ ret' = Call("NFA", <<initial, alphabet, empty_char>>, "None", "ValueError")
            /\ UNCHANGED <<pc, nfa>>
       ELSE /\ nfa' = NFANew(initial, alphabet, empty_char)
            /\ pc' = "run"
            /\ ret' = Call("NFA", <<initial, alphabet, empty_char>>, "NFA", "None")
    /\ UNCHANGED <<kind, nfaTrans, nfaAccepting, dfaVars, mooreVars, mealyVars>>

\* nfa.accept(sequence)
NFAAccept(sequence) ==
    /\ kind = "nfa"
    /\ pc = "run"
    /\ \E o \in NFAAcceptOutcomes(nfaTrans, nfaAccepting, nfa, sequence) :
          ret' = IF o = "RecursionError"
                 THEN Call("NFA.accept", sequence, "None", o)
                 ELSE Call("NFA.accept", sequence, o, "None")
    /\ UNCHANGED <<kind, pc, nfaVars, dfaVars, mooreVars, mealyVars>>

\* nfa_eclosure(nfa, sub)
NFAEclosure(sub) ==
    /\ kind = "nfa"
    /\ pc = "run"
    /\ LET r == NfaEclosure(nfaTrans, nfa.empty_char, sub)
       IN ret' = IF r.err
                 THEN Call("nfa_eclosure", sub, "None", "RecursionError")
                 ELSE Call("nfa_eclosure", sub, r.val, "None")
    /\ UNCHANGED <<kind, pc, nfaVars, dfaVars, mooreVars, mealyVars>>

\* nfa_to_dfa(nfa)
NFAToDfa ==
    /\ kind = "nfa"
    /\ pc = "run"
    /\ dfa = NoDFA
    /\ LET r == NfaToDfa(nfaTrans, nfaAccepting, nfa, heap)
       IN IF r.err
          THEN /\ ret' = Call("nfa_to_dfa", <<>>, "None", "RecursionError")
               /\ UNCHANGED <<heap, dfa>>
          ELSE /\ heap' = r.heap
               /\ dfa' = r.dfa
               /\ ret' = Call("nfa_to_dfa", <<>>, "DFA", "None")
    /\ UNCHANGED <<kind, pc, nfaVars, cdfa, ccdfa, mooreVars, mealyVars>>

NextNFA ==
    \/ \E src \in NFANames, symbol \in Symbols, target \in NFATargets :
          NFAAddTransition(src, symbol, target)
    \/ \E alphabet \in Alphabets, empty_char \in EmptyChars :
          NFAInit("p", alphabet, empty_char)
    \/ \E sequence \in InputSeqs : NFAAccept(sequence)
    \/ \E sub \in EclosureArgs : NFAEclosure(sub)
    \/ NFAToDfa

SpecNFA == InitNFA /\ [][NextNFA]_vars

-----------------------------------------------------------------------------
(* Scenario: a DFA *)

InitDFA ==
    /\ kind = "dfa"
    /\ pc = "build"
    /\ \E acc \in DFAAcceptingSets :
          heap = [a \in 1..Len(DFANames) |-> DFAStateNew(DFANames[a], a = 1, a \in acc)]
    /\ dfa = NoDFA
    /\ cdfa = NoDFA
    /\ ccdfa = NoDFA
    /\ IdleNFA /\ IdleMoore /\ IdleMealy
    /\ ret = NoCall

\* state.add_transition(symbol, target) on a DFAState
DFAAddTransition(src, symbol, target) ==
    /\ kind = "dfa"
    /\ pc = "build"
    /\ heap' = DFAStateAddTransition(heap, src, symbol, target)
    /\ DFAEdgeCount(heap') <= MaxEdges
    /\ ret' = Call("DFAState.add_transition", <<src, symbol, target>>, "None", "None")
    /\ UNCHANGED <<kind, pc, dfa, cdfa, ccdfa, nfaVars, mooreVars, mealyVars>>

\* state.transition(symbol) on a DFAState, before a machine is made of the graph
DFAStateGetTransition(src, symbol) ==
    /\ kind = "dfa"
    /\ pc = "build"
    /\ LET r == DFAStateTransition(heap, src, symbol)
       IN ret' = Call("DFAState.transition", <<src, symbol>>, r.val, r.raised)
    /\ UNCHANGED <<kind, pc, dfaVars, nfaVars, mooreVars, mealyVars>>

\* DFA(initial, alphabet)
DFAInit(initial, alphabet) ==
    /\ kind = "dfa"
    /\ pc = "build"
    /\ pc' = "run"
    /\ dfa' = DFANew(initial, alphabet)
    /\ ret' = Call("DFA", <<>>, "DFA", "None")
    /\ UNCHANGED <<kind, heap, cdfa, ccdfa, nfaVars, mooreVars, mealyVars>>

\* dfa.process(x)
DFAProcess(x) ==
    /\ kind = "dfa"
    /\ pc = "run"
    /\ LET r == DFAProcessCall(heap, dfa, x)
       IN /\ dfa' = r.dfa
          /\ ret' = Call("DFA.process", <<x>>, "None", r.raised)
    /\ UNCHANGED <<kind, pc, heap, cdfa, ccdfa, nfaVars, mooreVars, mealyVars>>

\* dfa.accept(sequence)
DFAAccept(sequence) ==
    /\ kind = "dfa"
    /\ pc = "run"
    /\ LET r == DFAAcceptCall(heap, dfa, sequence)
       IN /\ dfa' = r.dfa
          /\ ret' = Call("DFA.accept", sequence, r.val, "None")
    /\ UNCHANGED <<kind, pc, heap, cdfa, ccdfa, nfaVars, mooreVars, mealyVars>>

\* complete_dfa(dfa)
DFACompleteDfa ==
    /\ kind = "dfa"
    /\ pc = "run"
    /\ cdfa = NoDFA
    /\ LET r == CompleteDfa(heap, dfa)
       IN /\ heap' = r.heap
          /\ cdfa' = r.dfa
    /\ ret' = Call("complete_dfa", <<>>, "DFA", "None")
    /\ UNCHANGED <<kind, pc, dfa, ccdfa, nfaVars, mooreVars, mealyVars>>

\* complete_dfa(complete_dfa(dfa)): the DFA just returned is completed in turn, and the run ends
DFACompleteTwice ==
    /\ kind = "dfa"
    /\ pc = "run"
    /\ ret.op = "complete_dfa"
    /\ pc' = "done"
    /\ LET r == CompleteDfa(heap, cdfa)
       IN /\ heap' = r.heap
          /\ ccdfa' = r.dfa
    /\ ret' = Call("complete_dfa(complete_dfa)", <<>>, "DFA", "None")
    /\ UNCHANGED <<kind, dfa, cdfa, nfaVars, mooreVars, mealyVars>>

\* dfa.states
DFAGetStates ==
    /\ kind = "dfa"
    /\ pc = "run"
    /\ ret' = Call("DFA.states", <<>>, DFAStates(heap, dfa), "None")
    /\ UNCHANGED <<kind, pc, dfaVars, nfaVars, mooreVars, mealyVars>>

\* dfa.complete
DFAGetComplete ==
    /\ kind = "dfa"
    /\ pc = "run"
    /\ ret' = Call("DFA.complete", <<>>, PyBool(DFAComplete(heap, dfa)), "None")
    /\ UNCHANGED <<kind, pc, dfaVars, nfaVars, mooreVars, mealyVars>>

NextDFA ==
    \/ \E src \in DOMAIN DFANames, symbol \in DFASymbols, target \in DOMAIN DFANames :
          DFAAddTransition(src, symbol, target)
    \/ \E alphabet \in {DFAAlphabet, DFAShortAlphabet} : DFAInit(1, alphabet)
    \/ \E x \in DFASymbols : DFAProcess(x)
    \/ \E sequence \in InputSeqs : DFAAccept(sequence)
    \/ DFACompleteDfa
    \/ DFACompleteTwice
    \/ DFAGetStates
    \/ DFAGetComplete

SpecDFA == InitDFA /\ [][NextDFA]_vars

-----------------------------------------------------------------------------
(* Scenario: a Moore machine *)

MooreEdgeCount(states) ==
    Sum([n \in DOMAIN states |-> Cardinality(DOMAIN states[n].transitions)], DOMAIN states)

InitMoore ==
    /\ kind = "moore"
    /\ pc = "build"
    /\ mooreStates = [n \in MooreNames |-> MooreStateNew(n = "m0", FALSE, MooreOutput[n])]
    /\ moore = NoMachine
    /\ IdleNFA /\ IdleDFA /\ IdleMealy
    /\ ret = NoCall

\* state.add_transition(symbol, target) on a MooreState
MooreAddTransition(src, symbol, target) ==
    /\ kind = "moore"
    /\ pc = "build"
    /\ mooreStates' = MooreStateAddTransition(mooreStates, src, symbol, target)
    /\ MooreEdgeCount(mooreStates') <= MaxEdges
    /\ ret' = Call("MooreState.add_transition", <<>>, "None", "None")
    /\ UNCHANGED <<kind, pc, moore, nfaVars, dfaVars, mealyVars>>

\* MooreMachine(initial, alphabet)
MooreInit(initial, alphabet) ==
    /\ kind = "moore"
    /\ pc = "build"
    /\ pc' = "run"
    /\ moore' = MachineNew(initial, alphabet)
    /\ ret' = Call("MooreMachine", <<>>, "MooreMachine", "None")
    /\ UNCHANGED <<kind, mooreStates, nfaVars, dfaVars, mealyVars>>

\* machine.forward(symbol) on a MooreMachine
MooreForward(symbol) ==
    /\ kind = "moore"
    /\ pc = "run"
    /\ LET r == MooreForwardCall(mooreStates, moore, symbol)
       IN /\ moore' = r.machine
          /\ ret' = Call("MooreMachine.forward", <<symbol>>, r.val, r.raised)
    /\ UNCHANGED <<kind, pc, mooreStates, nfaVars, dfaVars, mealyVars>>

\* machine.reset() on a MooreMachine
MooreReset ==
    /\ kind = "moore"
    /\ pc = "run"
    /\ moore' = ResetCall(moore)
    /\ ret' = Call("MooreMachine.reset", <<>>, "None", "None")
    /\ UNCHANGED <<kind, pc, mooreStates, nfaVars, dfaVars, mealyVars>>

NextMoore ==
    \/ \E src \in MooreNames, symbol \in MooreSymbols, target \in MooreNames :
          MooreAddTransition(src, symbol, target)
    \/ MooreInit("m0", MooreAlphabet)
    \/ \E symbol \in MooreSymbols : MooreForward(symbol)
    \/ MooreReset

SpecMoore == InitMoore /\ [][NextMoore]_vars

-----------------------------------------------------------------------------
(* Scenario: a Mealy machine, saved and loaded *)

MealyEdgeCount(states) ==
    Sum([n \in DOMAIN states |-> Cardinality(DOMAIN states[n].transitions)], DOMAIN states)

\* the machine in hand: the one built, or the one loaded once load has returned it
Live == IF pc = "loaded" THEN "l" ELSE "m"

InitMealy ==
    /\ kind = "mealy"
    /\ pc = "build"
    /\ \E flagged \in MealyInitialSets :
          mealyStates = [tag \in {"m", "l"} |->
              IF tag = "m"
              THEN [n \in MealyNames |-> MealyStateNew(n \in flagged, n \in MealyAccepting)]
              ELSE EmptyDict]
    /\ mealy = [tag \in {"m", "l"} |-> NoMachine]
    /\ file = NoFile
    /\ IdleNFA /\ IdleDFA /\ IdleMoore
    /\ ret = NoCall

\* state.add_transition(symbol, target, output_fun=...) on a MealyState
MealyAddTransition(src, symbol, target, output_fun) ==
    /\ kind = "mealy"
    /\ pc = "build"
    /\ mealyStates' = [mealyStates EXCEPT
                         !["m"] = MealyStateAddTransition(@, src, symbol, target, output_fun)]
    /\ MealyEdgeCount(mealyStates'["m"]) <= MaxEdges
    /\ ret' = Call("MealyState.add_transition", <<>>, "None", "None")
    /\ UNCHANGED <<kind, pc, mealy, file, nfaVars, dfaVars, mooreVars>>

\* MealyMachine(initial, alphabet)
MealyInit(initial, alphabet) ==
    /\ kind = "mealy"
    /\ pc = "build"
    /\ pc' = "run"
    /\ mealy' = [mealy EXCEPT !["m"] = MachineNew(initial, alphabet)]
    /\ ret' = Call("MealyMachine", <<>>, "MealyMachine", "None")
    /\ UNCHANGED <<kind, mealyStates, file, nfaVars, dfaVars, mooreVars>>

\* machine.forward(symbol) on the MealyMachine in hand
MealyForward(symbol) ==
    /\ kind = "mealy"
    /\ pc \in {"run", "loaded"}
    /\ LET r == MealyForwardCall(mealyStates[Live], mealy[Live], symbol)
       IN /\ mealy' = [mealy EXCEPT ![Live] = r.machine]
          /\ ret' = Call("MealyMachine.forward", <<symbol>>, r.val, r.raised)
    /\ UNCHANGED <<kind, pc, mealyStates, file, nfaVars, dfaVars, mooreVars>>

\* machine.process(seq) on the MealyMachine built
MealyProcess(seq) ==
    /\ kind = "mealy"
    /\ pc = "run"
    /\ LET r == MealyProcessCall(mealyStates["m"], mealy["m"], seq)
       IN /\ mealy' = [mealy EXCEPT !["m"] = r.machine]
          /\ ret' = Call("MealyMachine.process", seq, r.printed, r.raised)
    /\ UNCHANGED <<kind, pc, mealyStates, file, nfaVars, dfaVars, mooreVars>>

\* machine.reset() on the MealyMachine in hand
MealyReset ==
    /\ kind = "mealy"
    /\ pc \in {"run", "loaded"}
    /\ mealy' = [mealy EXCEPT ![Live] = ResetCall(@)]
    /\ ret' = Call("MealyMachine.reset", <<>>, "None", "None")
    /\ UNCHANGED <<kind, pc, mealyStates, file, nfaVars, dfaVars, mooreVars>>

\* machine.save(path) on the MealyMachine built
MealySave ==
    /\ kind = "mealy"
    /\ pc = "run"
    /\ pc' = "saved"
    /\ \E order \in Orders(MealyMachineStates(mealyStates["m"], mealy["m"])) :
          file' = SaveDocument(mealyStates["m"], mealy["m"], order)
    /\ ret' = Call("MealyMachine.save", <<>>, "None", "None")
    /\ UNCHANGED <<kind, mealyStates, mealy, nfaVars, dfaVars, mooreVars>>

(* The file is changed on disk between save and load: one entry of its      *)
(* "states" list is removed, or its "current" names a state it does not      *)
(* list.  load reads whatever json.load returns.                             *)
MealyEditFile ==
    /\ kind = "mealy"
    /\ pc = "saved"
    /\ ret.op = "MealyMachine.save"
    /\ \/ \E i \in DOMAIN file.states :
             file' = [file EXCEPT !.states =
                         SubSeq(@, 1, i - 1) \o SubSeq(@, i + 1, Len(@))]
       \/ file' = [file EXCEPT !.current = "gone"]
    /\ ret' = Call("edit", <<>>, "None", "None")
    /\ UNCHANGED <<kind, pc, mealyStates, mealy, nfaVars, dfaVars, mooreVars>>

\* MealyMachine.load(path) of the document saved
MealyLoad ==
    /\ kind = "mealy"
    /\ pc = "saved"
    /\ \E raised \in LoadRaised(file) :
          IF raised = "None"
          THEN /\ pc' = "loaded"
               /\ mealyStates' = [mealyStates EXCEPT !["l"] = LoadStates(file)]
               /\ mealy' = [mealy EXCEPT !["l"] = LoadMachine(file)]
               /\ ret' = Call("MealyMachine.load", <<>>, "MealyMachine", "None")
          ELSE /\ ret' = Call("MealyMachine.load", <<>>, "None", raised)
               /\ UNCHANGED <<pc, mealyStates, mealy>>
    /\ UNCHANGED <<kind, file, nfaVars, dfaVars, mooreVars>>

NextMealy ==
    \/ \E src \in MealyNames, symbol \in MealySymbols, target \in MealyNames,
          output_fun \in OutputFuns :
          MealyAddTransition(src, symbol, target, output_fun)
    \/ MealyInit("q0", MealyAlphabet)
    \/ \E symbol \in MealySymbols : MealyForward(symbol)
    \/ \E seq \in InputSeqs : MealyProcess(seq)
    \/ MealyReset
    \/ MealySave
    \/ MealyEditFile
    \/ MealyLoad

SpecMealy == InitMealy /\ [][NextMealy]_vars

-----------------------------------------------------------------------------
(* Scenario: larger NFAs without epsilon moves, built state by state and     *)
(* given to nfa_to_dfa                                                       *)

InitSubset ==
    /\ kind = "subset"
    /\ pc = "build"
    /\ nfaTrans = [s \in NFANames |-> NFAStateNewTransitions]
    /\ nfaAccepting = {"q"}
    /\ nfa = NoNFA
    /\ IdleDFA /\ IdleMoore /\ IdleMealy
    /\ ret = NoCall

\* state.add_transition(symbol, target) on an NFAState, target a single state
SubsetAddTransition(src, symbol, target) ==
    /\ kind = "subset"
    /\ pc = "build"
    /\ nfaTrans' = NFAStateAddTransition(nfaTrans, src, symbol, {target})
    /\ NFAEdgeCount(nfaTrans') <= MaxSubsetEdges
    /\ ret' = Call("NFAState.add_transition", <<src, symbol, {target}>>, "None", "None")
    /\ UNCHANGED <<kind, pc, nfaAccepting, nfa, dfaVars, mooreVars, mealyVars>>

\* NFA(initial, alphabet, empty_char) with an empty symbol outside the alphabet
SubsetInit(initial, alphabet, empty_char) ==
    /\ kind = "subset"
    /\ pc = "build"
    /\ ~NFAInitRaises(alphabet, empty_char)
    /\ nfa' = NFANew(initial, alphabet, empty_char)
    /\ pc' = "run"
    /\ ret' = Call("NFA", <<initial, alphabet, empty_char>>, "NFA", "None")
    /\ UNCHANGED <<kind, nfaTrans, nfaAccepting, dfaVars, mooreVars, mealyVars>>

\* nfa_to_dfa(nfa); without epsilon moves nfa_eclosure always returns
SubsetToDfa ==
    /\ kind = "subset"
    /\ pc = "run"
    /\ dfa = NoDFA
    /\ LET r == NfaToDfa(nfaTrans, nfaAccepting, nfa, heap)
       IN /\ ~r.err
          /\ heap' = r.heap
          /\ dfa' = r.dfa
          /\ ret' = Call("nfa_to_dfa", <<>>, "DFA", "None")
    /\ UNCHANGED <<kind, pc, nfaVars, cdfa, ccdfa, mooreVars, mealyVars>>

NextSubset ==
    \/ \E src \in NFANames, symbol \in {"a", "b"}, target \in NFANames :
          SubsetAddTransition(src, symbol, target)
    \/ SubsetInit("p", <<"a", "b">>, "~")
    \/ SubsetToDfa

SpecSubset == InitSubset /\ [][NextSubset]_vars

-----------------------------------------------------------------------------
(* The state objects alone, before any machine is made of them: the calls   *)
(* of add_transition and transition on NFAState and DFAState.               *)
NextStates ==
    \/ \E src \in NFANames, symbol \in Symbols, target \in NFATargets :
          NFAAddTransition(src, symbol, target)
    \/ \E src \in NFANames, symbol \in Symbols : NFAStateGetTransition(src, symbol)
    \/ \E src \in DOMAIN DFANames, symbol \in DFASymbols, target \in DOMAIN DFANames :
          DFAAddTransition(src, symbol, target)
    \/ \E src \in DOMAIN DFANames, symbol \in DFASymbols : DFAStateGetTransition(src, symbol)
SpecStates == (InitNFA \/ InitDFA) /\ [][NextStates]_vars

-----------------------------------------------------------------------------
(* Every scenario *)

Init == InitNFA \/ InitDFA \/ InitMoore \/ InitMealy \/ InitSubset
Next == NextNFA \/ NextDFA \/ NextMoore \/ NextMealy \/ NextStates \/ NextSubset
Spec == Init /\ [][Next]_vars

\* the machines that step deterministically: DFA, MooreMachine, MealyMachine
InitDeterministic == InitDFA \/ InitMoore \/ InitMealy
NextDeterministic == NextDFA \/ NextMoore \/ NextMealy
SpecDeterministic == InitDeterministic /\ [][NextDeterministic]_vars

-----------------------------------------------------------------------------
(* Properties *)

(* C1: for every sequence s over the alphabet, the DFA returned by           *)
(* nfa_to_dfa(nfa) gives accept(s) equal to nfa.accept(s), also when an      *)
(* accepting state is reached only by epsilon moves after the last symbol.   *)
(* Stated for the calls of nfa.accept that return.                           *)
C1_DeterminizationPreservesAccept ==
    dfa # NoDFA =>
        \A s \in InputSeqs :
            LET outs == NFAAcceptOutcomes(nfaTrans, nfaAccepting, nfa, s)
            IN "RecursionError" \notin outs => outs = {DFAAcceptCall(heap, dfa, s).val}

\* p -~-> q accepting: the DFA accepts the empty sequence and nfa.accept returns False
C1_Witness ==
    /\ dfa # NoDFA
    /\ NFAAcceptOutcomes(nfaTrans, nfaAccepting, nfa, <<>>) = {"False"}
    /\ DFAAcceptCall(heap, dfa, <<>>).val = "True"

(* C2: nfa.accept(s) terminates and returns a boolean for every graph and    *)
(* every sequence, epsilon cycles included.                                  *)
C2_NFAAcceptReturns ==
    ret.op = "NFA.accept" => (ret.raised = "None" /\ ret.val \in {"True", "False"})

\* nfa.accept ended in RecursionError on a graph with an epsilon cycle
C2_Witness ==
    /\ ret.op = "NFA.accept"
    /\ ret.raised = "RecursionError"
    /\ \E s \in NFANames : \E t \in nfaTrans[s]["~"] : s \in nfaTrans[t]["~"]

(* C3: for a DFA d whose cursor is at its initial state, complete_dfa(d)     *)
(* and d give the same accept(s) for every sequence s.                       *)
C3_CompletionPreservesAccept ==
    (cdfa # NoDFA /\ cdfa.current = cdfa.initial /\ dfa.current = dfa.initial) =>
        \A s \in InputSeqs :
            DFAAcceptCall(heap, cdfa, s).val = DFAAcceptCall(heap, dfa, s).val

\* a DFA with a missing transition was completed, and the copy accepts a sequence of full length
C3_Witness ==
    /\ ret.op = "complete_dfa"
    /\ ~DFAComplete(heap, dfa)
    /\ cdfa.current = cdfa.initial /\ dfa.current = dfa.initial
    /\ \E s \in InputSeqs : Len(s) = MaxLen /\ DFAAcceptCall(heap, cdfa, s).val = "True"
    /\ \E x \in DFASymbols : heap[DFAProcessCall(heap, cdfa, x).dfa.current].name = "q'"

(* C4: the DFA returned by complete_dfa(d) is complete: every state          *)
(* reachable from its initial state, the sink included, has a transition     *)
(* for every symbol of the alphabet.                                         *)
C4_CompletionIsComplete ==
    cdfa # NoDFA =>
        /\ DFAComplete(heap, cdfa)
        /\ \A state \in Reachable(heap, {cdfa.initial}) :
               Range(cdfa.alphabet) \subseteq DOMAIN heap[state].transitions

\* an incomplete DFA was completed and the sink is reachable in the copy
C4_Witness ==
    /\ cdfa # NoDFA
    /\ ~DFAComplete(heap, dfa)
    /\ \E state \in Reachable(heap, {cdfa.initial}) : heap[state].name = "q'"

\* the document is the one m.save wrote
FileAsSaved ==
    /\ mealy["m"] # NoMachine
    /\ \E order \in Orders(MealyMachineStates(mealyStates["m"], mealy["m"])) :
          file = SaveDocument(mealyStates["m"], mealy["m"], order)

\* the outputs of forward, symbol by symbol, from the cursor of m; an exception ends the list
RECURSIVE ForwardOutputs(_, _, _)
ForwardOutputs(states, m, seq) ==
    IF seq = <<>> THEN <<>>
    ELSE LET r == MealyForwardCall(states, m, Head(seq))
         IN IF r.raised # "None" THEN <<r.raised>>
            ELSE <<r.val>> \o ForwardOutputs(states, r.machine, Tail(seq))

(* C5: the machine MealyMachine.load returns after m.save produces, step by  *)
(* step, the same forward outputs as m from the same cursor position; an     *)
(* edge with an output function still produces that output.                  *)
C5_RoundTripSameOutputs ==
    (ret.op = "MealyMachine.load" /\ ret.raised = "None" /\ FileAsSaved) =>
        \A seq \in InputSeqs :
            ForwardOutputs(mealyStates["l"], mealy["l"], seq)
                = ForwardOutputs(mealyStates["m"], mealy["m"], seq)

\* load returned a machine whose edge lost the output function the edge of m has
C5_Witness ==
    /\ FileAsSaved
    /\ ret.op = "MealyMachine.load"
    /\ ret.raised = "None"
    /\ \E n \in DOMAIN mealyStates["l"] : \E c \in DOMAIN mealyStates["l"][n].transitions :
          /\ mealyStates["m"][n].transitions[c].fun = "error_strawberry"
          /\ mealyStates["l"][n].transitions[c].fun = "None"

(* C6: load(save(m)) has the same reachable state names with the same flags, *)
(* the same (source, symbol, destination) transitions, the same alphabet,    *)
(* and a cursor on the state named as m's cursor at the time of save.        *)
C6_RoundTripSameGraph ==
    (ret.op = "MealyMachine.load" /\ FileAsSaved) =>
        /\ ret.raised = "None"
        /\ mealy["l"].initial # "None"
        /\ mealy["l"].alphabet = mealy["m"].alphabet
        /\ mealy["l"].current = mealy["m"].current
        /\ LET names == MealyMachineStates(mealyStates["m"], mealy["m"])
           IN /\ MealyMachineStates(mealyStates["l"], mealy["l"]) = names
              /\ \A n \in names :
                    /\ StateDict(mealyStates["l"], n) = StateDict(mealyStates["m"], n)
                    /\ DOMAIN mealyStates["l"][n].transitions = DOMAIN mealyStates["m"][n].transitions
                    /\ \A c \in DOMAIN mealyStates["m"][n].transitions :
                          mealyStates["l"][n].transitions[c].to = mealyStates["m"][n].transitions[c].to

\* load of the document of a machine with a lambda edge ended in an exception
C6_Witness ==
    /\ FileAsSaved
    /\ ret.op = "MealyMachine.load"
    /\ ret.raised = "IndentationError"

(* C7: after every call of DFA.accept returns (true, false at the end of    *)
(* the sequence, or false on a missing transition) the cursor equals the    *)
(* initial state, and a missing transition inside accept never raises.      *)
C7_AcceptResetsCursor ==
    ret.op = "DFA.accept" =>
        /\ dfa.current = dfa.initial
        /\ ret.raised = "None"
        /\ ret.val \in {"True", "False"}

\* accept returned False on a first symbol no state has a transition for, in a graph with an edge off the initial state
C7_Witness ==
    /\ ret.op = "DFA.accept"
    /\ ret.val = "False"
    /\ ret.arg # <<>>
    /\ \A a \in DOMAIN heap : Head(ret.arg) \notin DOMAIN heap[a].transitions
    /\ \E c \in DOMAIN heap[dfa.initial].transitions :
          heap[dfa.initial].transitions[c] # dfa.initial

(* C8: a single step (DFA.process, MooreMachine.forward,                     *)
(* MealyMachine.forward) on a symbol with no entry in the current state's    *)
(* transition table raises KeyError to the caller and leaves the cursor on   *)
(* the state it was on before the call.                                      *)
C8_MissingStepRaisesAndStays ==
    [][ /\ (ret'.op = "DFA.process"
              /\ ret'.arg[1] \notin DOMAIN heap[dfa.current].transitions)
            => (ret'.raised = "KeyError" /\ dfa' = dfa)
        /\ (ret'.op = "MooreMachine.forward"
              /\ ret'.arg[1] \notin DOMAIN mooreStates[moore.current].transitions)
            => (ret'.raised = "KeyError" /\ moore' = moore)
        /\ (ret'.op = "MealyMachine.forward"
              /\ mealy[Live].current # "None"
              /\ ret'.arg[1] \notin DOMAIN mealyStates[Live][mealy[Live].current].transitions)
            => (ret'.raised = "KeyError" /\ mealy' = mealy)
      ]_vars

\* forward raised KeyError on a Mealy machine whose cursor is off the initial state
C8_Witness ==
    /\ ret.op = "MealyMachine.forward"
    /\ ret.raised = "KeyError"
    /\ pc = "run"
    /\ mealy["m"].current # mealy["m"].initial

(* C9: after any sequence of forward, process, accept, reset, save and load  *)
(* the cursor, and the initial reference reset restores it to, is never      *)
(* None and points at a state reachable from the machine's initial state.    *)
C9_CursorNeverNone ==
    /\ (kind = "dfa" /\ pc = "run") =>
          dfa.current \in Reachable(heap, {dfa.initial})
    /\ (kind = "moore" /\ pc = "run") =>
          (moore.initial # "None" /\ moore.current # "None")
    /\ (kind = "mealy" /\ pc \in {"run", "saved", "loaded"} /\ (pc = "loaded" => FileAsSaved)) =>
          /\ mealy[Live].initial # "None"
          /\ mealy[Live].current # "None"
          /\ mealy[Live].current \in MealyMachineStates(mealyStates[Live], mealy[Live])

\* a loaded machine was reset onto the initial reference None
C9_Witness ==
    /\ pc = "loaded"
    /\ FileAsSaved
    /\ ret.op = "MealyMachine.reset"
    /\ mealy["l"].current = "None"

(* C10: NFA(initial, alphabet, empty_char) raises ValueError exactly when    *)
(* empty_char is a member of alphabet; otherwise construction succeeds with  *)
(* the cursor equal to the given initial state.                              *)
C10_NFAInitValidates ==
    ret.op = "NFA" =>
        /\ ret.raised \in {"None", "ValueError"}
        /\ (ret.raised = "ValueError") <=> (ret.arg[3] \in Range(ret.arg[2]))
        /\ (ret.raised = "ValueError") => (pc = "build" /\ nfa = NoNFA)
        /\ (ret.raised = "None") =>
              (pc = "run" /\ nfa.current = ret.arg[1] /\ nfa.initial = ret.arg[1]
                /\ nfa.alphabet = ret.arg[2] /\ nfa.empty_char = ret.arg[3])

\* a construction with the epsilon symbol in the alphabet was refused
C10_Witness ==
    ret.op = "NFA" /\ ret.raised = "ValueError" /\ ret.arg[3] \in Range(ret.arg[2])

(* C11: MealyMachine.forward(symbol) moves the cursor to the successor       *)
(* recorded for (current state, symbol) and returns the output of the        *)
(* function bound to that edge applied to the symbol, or None when no        *)
(* function was bound; the output is that of the edge taken.                 *)
C11_ForwardTakesEdge ==
    [][ (/\ ret'.op = "MealyMachine.forward"
         /\ mealy[Live].current # "None"
         /\ ret'.arg[1] \in DOMAIN mealyStates[Live][mealy[Live].current].transitions)
        => LET edge == mealyStates[Live][mealy[Live].current].transitions[ret'.arg[1]]
           IN /\ ret'.raised = "None"
              /\ mealy'[Live].current = edge.to
              /\ mealy'[Live].initial = mealy[Live].initial
              /\ ret'.val = (IF edge.fun = "None" THEN "None"
                             ELSE IF edge.fun = "error_strawberry"
                             THEN "Error: three strawberry lollipops in a row"
                             ELSE "Normal operation")
      ]_vars

\* 'b' from q1 gave the output of the edge q1 -b-> q1, another one than the edge q0 -b-> q1 gives
C11_Witness ==
    /\ pc = "run"
    /\ ret.op = "MealyMachine.forward"
    /\ ret.arg = <<"b">>
    /\ ret.val = "Error: three strawberry lollipops in a row"
    /\ mealy["m"].current = "q1"
    /\ "b" \in DOMAIN mealyStates["m"]["q0"].transitions
    /\ mealyStates["m"]["q0"].transitions["b"] = [to |-> "q1", fun |-> "lambda"]

(* C12: reset() on a Moore or Mealy machine sets the cursor to the initial   *)
(* state and changes nothing else (initial reference, alphabet, every        *)
(* state's flags and transition table); a second reset changes nothing.      *)
C12_ResetOnlyMovesCursor ==
    [][ /\ (ret'.op = "MooreMachine.reset") =>
              /\ moore' = [moore EXCEPT !.current = moore.initial]
              /\ mooreStates' = mooreStates
              /\ ResetCall(moore') = moore'
        /\ (ret'.op = "MealyMachine.reset") =>
              /\ mealy' = [mealy EXCEPT ![Live].current = mealy[Live].initial]
              /\ mealyStates' = mealyStates
              /\ file' = file
              /\ ResetCall(mealy'[Live]) = mealy'[Live]
      ]_vars

\* reset brought a Mealy machine back from q1 with its graph in place
C12_Witness ==
    /\ pc = "run"
    /\ ret.op = "MealyMachine.reset"
    /\ mealy["m"].current = "q0"
    /\ \E c \in DOMAIN mealyStates["m"]["q0"].transitions :
          mealyStates["m"]["q0"].transitions[c].to = "q1"
    /\ DOMAIN mealyStates["m"]["q1"].transitions # {}

\* what process prints for the outputs outs[1..n]: each output that is not None, with its position
RECURSIVE PrintedUpTo(_, _)
PrintedUpTo(outs, n) ==
    IF n = 0 THEN <<>>
    ELSE IF outs[n] # "None" THEN Append(PrintedUpTo(outs, n - 1), <<outs[n], n>>)
    ELSE PrintedUpTo(outs, n - 1)

(* C13: MealyMachine.process(seq) calls forward once per symbol of seq, in   *)
(* order, starting from the cursor at the time of the call, and when it has  *)
(* finished the cursor equals the initial state.  A forward that raises      *)
(* ends process with that exception.                                         *)
C13_ProcessDrivesForward ==
    [][ (ret'.op = "MealyMachine.process") =>
          LET outs == ForwardOutputs(mealyStates["m"], mealy["m"], ret'.arg)
              walked == /\ Len(outs) = Len(ret'.arg)
                        /\ \A i \in DOMAIN outs : outs[i] \notin {"KeyError", "AttributeError"}
          IN /\ (ret'.raised = "None") <=> walked
             /\ walked => /\ ret'.val = PrintedUpTo(outs, Len(outs))
                          /\ mealy'["m"] = [mealy["m"] EXCEPT !.current = mealy["m"].initial]
             /\ ~walked => ret'.raised = outs[Len(outs)]
             /\ mealyStates' = mealyStates
      ]_vars

\* process walked a full-length sequence through q1, printed an output for each symbol and came back to q0
C13_Witness ==
    /\ ret.op = "MealyMachine.process"
    /\ ret.raised = "None"
    /\ Len(ret.arg) = MaxLen
    /\ Len(ret.val) = MaxLen
    /\ mealy["m"].current = "q0"
    /\ \E c \in DOMAIN mealyStates["m"]["q0"].transitions :
          mealyStates["m"]["q0"].transitions[c].to = "q1"
    /\ \A c \in DOMAIN mealyStates["m"]["q0"].transitions :
          mealyStates["m"]["q0"].transitions[c].to = "q1"

(* C14: complete_dfa(d) never mutates its input: d's cursor, alphabet and    *)
(* every state's flags and transition table are as before, and no state of   *)
(* the returned DFA (sink included) is a state of d or reachable from d's    *)
(* states, on the already-complete path and on the sink-adding path.  The    *)
(* same is stated of the second completion and its input.                    *)
C14_CompletionLeavesInput ==
    [][ /\ (ret'.op = "complete_dfa") =>
              /\ dfa' = dfa
              /\ \A a \in DOMAIN heap : heap'[a] = heap[a]
              /\ LET made == Reachable(heap', {cdfa'.initial, cdfa'.current})
                 IN /\ made \cap DOMAIN heap = {}
                    /\ made \cap Reachable(heap', {dfa'.initial, dfa'.current}) = {}
        /\ (ret'.op = "complete_dfa(complete_dfa)") =>
              /\ dfa' = dfa /\ cdfa' = cdfa
              /\ \A a \in DOMAIN heap : heap'[a] = heap[a]
              /\ LET made == Reachable(heap', {ccdfa'.initial, ccdfa'.current})
                 IN /\ made \cap DOMAIN heap = {}
                    /\ made \cap Reachable(heap', {cdfa'.initial, cdfa'.current}) = {}
      ]_vars

\* a complete DFA with its cursor off the initial state was copied into new objects
C14_Witness ==
    /\ ret.op = "complete_dfa"
    /\ DFAComplete(heap, dfa)
    /\ dfa.current # dfa.initial
    /\ Len(heap) > Len(DFANames)
    /\ heap[cdfa.current].name = heap[dfa.current].name

WithinAlphabet(h, alphabet) ==
    [a \in DOMAIN h |->
        [h[a] EXCEPT !.transitions = [c \in (DOMAIN @) \cap Range(alphabet) |-> @[c]]]]

(* C16: DFA.complete is true if and only if every state reachable from the   *)
(* initial state, by transitions on any symbol, has a transition for every   *)
(* symbol of the alphabet; unreachable states and the extra keys of a state  *)
(* do not count.                                                             *)
C16_CompleteIffReachableTotal ==
    ret.op = "DFA.complete" =>
        /\ ret.raised = "None"
        /\ ret.val = PyBool(\A a \in Reachable(heap, {dfa.initial}) :
                               \A c \in Range(dfa.alphabet) : c \in DOMAIN heap[a].transitions)

(* C16 as stated: transitions on symbols outside the alphabet do not affect  *)
(* the result, so DFA.complete is the same with those transitions removed.   *)
C16_OutsideAlphabetIgnored ==
    ret.op = "DFA.complete" =>
        ret.val = PyBool(DFAComplete(WithinAlphabet(heap, dfa.alphabet), dfa))

\* alphabet [a], q0 -a-> q0 and q0 -b-> q1: complete is False because of q1, reached on b only
C16_Witness ==
    /\ ret.op = "DFA.complete"
    /\ ret.val = "False"
    /\ dfa.alphabet = DFAShortAlphabet
    /\ DOMAIN heap[1].transitions = {"a", "b"}
    /\ heap[1].transitions["a"] = 1
    /\ heap[1].transitions["b"] # 1

(* C17: complete_dfa(complete_dfa(d)).accept(s) equals                       *)
(* complete_dfa(d).accept(s) for every sequence s, and the second            *)
(* completion adds no further sink state: it makes one object per state of   *)
(* its input and nothing else.                                               *)
C17_CompletionIdempotent ==
    [][ (ret'.op = "complete_dfa(complete_dfa)") =>
          LET copied == Reachable(heap, {cdfa.initial, cdfa.current})
              made == Reachable(heap', {ccdfa'.initial, ccdfa'.current})
          IN /\ \A s \in InputSeqs :
                   DFAAcceptCall(heap', ccdfa', s).val = DFAAcceptCall(heap, cdfa, s).val
             /\ Len(heap') = Len(heap) + Cardinality(copied)
             /\ Cardinality(made) = Cardinality(copied)
             /\ {heap'[a].name : a \in made} = {heap[a].name : a \in copied}
             /\ DFAComplete(heap', ccdfa')
      ]_vars

\* an incomplete DFA was completed twice; the result accepts a sequence of full length and has the one sink
C17_Witness ==
    /\ ret.op = "complete_dfa(complete_dfa)"
    /\ ~DFAComplete(heap, dfa)
    /\ \E s \in InputSeqs : Len(s) = MaxLen /\ DFAAcceptCall(heap, ccdfa, s).val = "True"
    /\ Cardinality({a \in Reachable(heap, {ccdfa.initial}) : heap[a].name = "q'"}) = 1

(* C18: nfa_to_dfa terminates for every finite NFA, epsilon cycles          *)
(* included, and creates at most as many DFA states as there are non-empty   *)
(* subsets of NFA states.                                                    *)
C18_NfaToDfaReturns ==
    ret.op = "nfa_to_dfa" =>
        /\ ret.raised = "None"
        /\ dfa # NoDFA
        /\ Len(heap) <= Cardinality(SUBSET NFANames \ {{}})

\* nfa_to_dfa ended in RecursionError on an NFA whose initial state lies on an epsilon cycle
C18_Witness ==
    /\ ret.op = "nfa_to_dfa"
    /\ ret.raised = "RecursionError"
    /\ dfa = NoDFA
    /\ \E t \in nfaTrans[nfa.initial]["~"] : nfa.initial \in nfaTrans[t]["~"]

\* the document names, in a transition or as the cursor, a state its "states" list does not hold
Dangling(doc) ==
    \/ \E t \in doc.transitions : t.from \notin LoadNames(doc) \/ t.to \notin LoadNames(doc)
    \/ doc.current \notin LoadNames(doc)

(* C19: MealyMachine.load fails as a whole, returning no machine, when a     *)
(* persisted transition names a source or destination state that is not in   *)
(* the persisted state list, or when the persisted cursor name is not in     *)
(* it; no partially wired machine is produced.                               *)
C19_LoadRefusesDanglingNames ==
    (ret.op = "MealyMachine.load" /\ Dangling(file)) =>
        /\ ret.raised \in {"KeyError", "IndentationError"}
        /\ ret.val = "None"
        /\ pc # "loaded"
        /\ mealy["l"] = NoMachine
        /\ mealyStates["l"] = EmptyDict

\* load raised KeyError on a document whose transition leads to a state the list no longer holds
C19_Witness ==
    /\ ret.op = "MealyMachine.load"
    /\ ret.raised = "KeyError"
    /\ file.current \in LoadNames(file)
    /\ \E t \in file.transitions : t.from \in LoadNames(file) /\ t.to \notin LoadNames(file)

\* the states reached from the set S by zero or more epsilon moves
RECURSIVE EpsReach(_, _, _)
EpsReach(trans, eps, S) ==
    LET more == S \cup UNION {trans[x][eps] : x \in S}
    IN IF more = S THEN S ELSE EpsReach(trans, eps, more)

(* the states a path from S can be in at the moment seq becomes exhausted:   *)
(* epsilon moves, then a move that consumes the next symbol, and so on       *)
RECURSIVE Arrivals(_, _, _, _)
Arrivals(trans, eps, S, seq) ==
    IF seq = <<>> THEN S
    ELSE Arrivals(trans, eps,
                  UNION {trans[x][Head(seq)] : x \in EpsReach(trans, eps, S)}, Tail(seq))

\* no state comes back to itself by epsilon moves
NoEpsCycle(trans, eps) ==
    \A x \in DOMAIN trans : x \notin EpsReach(trans, eps, trans[x][eps])

(* C20: on NFAs without epsilon cycles, NFA.accept(s) is true if and only if *)
(* some path from the initial state, made of moves that consume the next     *)
(* symbol of s and of epsilon moves, is in an accepting state at the moment  *)
(* s becomes exhausted; absent transitions never raise, and the empty        *)
(* sequence is accepted iff the initial state is accepting.                  *)
C20_AcceptIffPath ==
    (ret.op = "NFA.accept" /\ NoEpsCycle(nfaTrans, nfa.empty_char)) =>
        /\ ret.raised = "None"
        /\ ret.val = PyBool(Arrivals(nfaTrans, nfa.empty_char, {nfa.initial}, ret.arg)
                               \cap nfaAccepting # {})
        /\ (ret.arg = <<>>) => (ret.val = PyBool(nfa.initial \in nfaAccepting))

\* 'a' was accepted along an epsilon move out of p, which has no transition on a itself
C20_Witness ==
    /\ ret.op = "NFA.accept"
    /\ ret.arg = <<"a">>
    /\ ret.val = "True"
    /\ NoEpsCycle(nfaTrans, nfa.empty_char)
    /\ nfaTrans["p"]["a"] = {}
    /\ nfaTrans["p"]["~"] # {}


(* C25: the value of DFA.accept(s) depends on the graph and on s alone:      *)
(* after process calls that moved the cursor off the initial state,          *)
(* accept(s) returns what it returns with the cursor at the initial state.   *)
C25_AcceptIgnoresCursor ==
    [][ret'.op = "DFA.accept" =>
          ret'.val = DFAAcceptRec(heap, [dfa EXCEPT !.current = dfa.initial], ret'.arg).val]_vars

\* q0 -> q1 accepting, process moved the cursor to q1, and accept('') then returned True
C25_Witness ==
    /\ ret.op = "DFA.accept"
    /\ ret.arg = <<>>
    /\ ret.val = "True"
    /\ ~heap[dfa.initial].accepting


(* C26: the machine MealyMachine.load returns has as its initial state the   *)
(* state named as the initial state the saved machine was constructed with,  *)
(* also when that state was created without its initial flag or when         *)
(* several states carry the flag.                                            *)
C26_LoadKeepsInitial ==
    (ret.op = "MealyMachine.load" /\ ret.raised = "None" /\ FileAsSaved) =>
        mealy["l"].initial = mealy["m"].initial

\* load returned a machine that starts at q1 where the saved machine was constructed with q0
C26_Witness ==
    /\ FileAsSaved
    /\ ret.op = "MealyMachine.load"
    /\ ret.raised = "None"
    /\ mealy["m"].initial = "q0"
    /\ mealy["l"].initial = "q1"
    /\ ~mealyStates["m"]["q0"].initial


(* C27: when complete_dfa adds a sink, the sink is not accepting and has a   *)
(* self-loop on every alphabet symbol, every transition missing in a state   *)
(* reachable from the initial state leads to it, no transition of the input  *)
(* is redirected, and exactly one state is added; when the input is already  *)
(* complete no state is added.  The states of the result are matched to      *)
(* those of the input by name.                                               *)
C27_SinkIsAbsorbing ==
    ret.op = "complete_dfa" =>
        LET sigma == Range(dfa.alphabet)
            old == Reachable(heap, {dfa.initial})
            new == Reachable(heap, {cdfa.initial})
            total == \A a \in old : sigma \subseteq DOMAIN heap[a].transitions
            sinks == {a \in new : heap[a].name = "q'"}
            twin(a) == CHOOSE b \in new : heap[b].name = heap[a].name
        IN /\ \A a \in old :
                 /\ \E b \in new : heap[b].name = heap[a].name
                 /\ heap[twin(a)].accepting = heap[a].accepting
                 /\ \A c \in DOMAIN heap[a].transitions :
                       /\ c \in DOMAIN heap[twin(a)].transitions
                       /\ heap[twin(a)].transitions[c] = twin(heap[a].transitions[c])
           /\ total =>
                 /\ Cardinality(new) = Cardinality(old)
                 /\ sinks = {}
                 /\ \A a \in old : DOMAIN heap[twin(a)].transitions = DOMAIN heap[a].transitions
           /\ ~total =>
                 /\ Cardinality(new) = Cardinality(old) + 1
                 /\ Cardinality(sinks) = 1
                 /\ \A q \in sinks :
                       /\ ~heap[q].accepting
                       /\ ~heap[q].initial
                       /\ heap[q].transitions = [c \in sigma |-> q]
                       /\ \A a \in old :
                             /\ DOMAIN heap[twin(a)].transitions
                                   = DOMAIN heap[a].transitions \cup sigma
                             /\ \A c \in sigma \ DOMAIN heap[a].transitions :
                                   heap[twin(a)].transitions[c] = q

\* the input has an edge q0 -> q1 on an alphabet symbol and q1 lacks a symbol: the copy of q1 leads to the sink
C27_Witness ==
    /\ ret.op = "complete_dfa"
    /\ \E c \in Range(dfa.alphabet) :
          /\ c \in DOMAIN heap[dfa.initial].transitions
          /\ heap[dfa.initial].transitions[c] # dfa.initial
          /\ c \notin DOMAIN heap[heap[dfa.initial].transitions[c]].transitions
          /\ heap[heap[heap[cdfa.initial].transitions[c]].transitions[c]].name = "q'"


(* C28: NFAState.add_transition is additive and DFAState.add_transition      *)
(* replaces.  A new NFAState returns the empty set for every symbol, the     *)
(* empty symbol included; add_transition(c, T) makes transition(c) the set   *)
(* it was united with T (a state or a set of states) and leaves every other  *)
(* symbol and state as it was, so transition(c) is the union of all targets  *)
(* ever added for c, in whatever order and however often; transition(c)      *)
(* returns that set and never raises.  DFAState.add_transition(c, t) makes   *)
(* transition(c) the state t whatever was there before.                      *)
C28_AddUnitesOrReplaces ==
    /\ kind = "nfa" => \A s \in NFANames, c \in Symbols : NFAStateTransition(nfaTrans, s, c) = {}
    /\ [][ /\ ret'.op = "NFAState.add_transition" =>
                 \A s \in NFANames, c \in Symbols :
                    NFAStateTransition(nfaTrans', s, c) =
                       IF s = ret'.arg[1] /\ c = ret'.arg[2]
                       THEN NFAStateTransition(nfaTrans, s, c) \cup ret'.arg[3]
                       ELSE NFAStateTransition(nfaTrans, s, c)
           /\ ret'.op = "NFAState.transition" =>
                 /\ ret'.raised = "None"
                 /\ ret'.val = nfaTrans[ret'.arg[1]][ret'.arg[2]]
                 /\ nfaTrans' = nfaTrans
           /\ ret'.op = "DFAState.add_transition" =>
                 /\ DFAStateTransition(heap', ret'.arg[1], ret'.arg[2]).val = ret'.arg[3]
                 /\ \A a \in DOMAIN heap, c \in DFASymbols :
                       (a # ret'.arg[1] \/ c # ret'.arg[2]) =>
                          DFAStateTransition(heap', a, c) = DFAStateTransition(heap, a, c)
           /\ ret'.op = "DFAState.transition" =>
                 /\ heap' = heap
                 /\ ret'.raised = "None" =>
                       ret'.val = heap[ret'.arg[1]].transitions[ret'.arg[2]]
         ]_vars

\* transition(c) returned the two states that add_transition had united into the set of c
C28_Witness ==
    /\ ret.op = "NFAState.transition"
    /\ Cardinality(ret.val) = 2
    /\ NFAEdgeCount(nfaTrans) = 2


(* C22: nfa_eclosure(nfa, S) returns the smallest superset of S closed under *)
(* epsilon moves: it returns, the set contains S and every epsilon successor *)
(* of its members, it contains nothing that epsilon moves do not reach from  *)
(* S, and the closure of the empty set is empty.                             *)
C22_EclosureIsLeastClosedSet ==
    ret.op = "nfa_eclosure" =>
        /\ ret.raised = "None"
        /\ ret.arg \subseteq ret.val
        /\ \A x \in ret.val : nfaTrans[x][nfa.empty_char] \subseteq ret.val
        /\ ret.val \subseteq EpsReach(nfaTrans, nfa.empty_char, ret.arg)
        /\ (ret.arg = {}) => (ret.val = {})

\* nfa_eclosure of {p} ended in RecursionError on a graph where p comes back to itself by epsilon moves
C22_Witness ==
    /\ ret.op = "nfa_eclosure"
    /\ ret.arg = {"p"}
    /\ ret.raised = "RecursionError"
    /\ "p" \in EpsReach(nfaTrans, nfa.empty_char, nfaTrans["p"][nfa.empty_char])


(* C23: during subset construction two subsets of NFA states are            *)
(* represented by the same DFA state if and only if they are the same set:   *)
(* a subset reached again reuses the DFA state made for it and is not        *)
(* enqueued a second time, and two different subsets never share a DFA       *)
(* state, also when NFA state names contain the separator '+'.               *)
C23_OneStatePerSubset ==
    (kind = "nfa" /\ ret.op = "nfa_to_dfa" /\ ret.raised = "None") =>
        LET run == NfaToDfa(nfaTrans, nfaAccepting, nfa, <<>>)
        IN /\ run.heap = heap
           /\ \A x \in run.stands, y \in run.stands : (x[2] = y[2]) <=> (x[1] = y[1])
           /\ \A i \in DOMAIN run.enqueued, j \in DOMAIN run.enqueued :
                 (run.enqueued[i][1] = run.enqueued[j][1]) => (i = j)

\* the subsets {p, q} and {p+q} were both given the one DFA state named "p+q"
C23_Witness ==
    /\ kind = "nfa"
    /\ ret.op = "nfa_to_dfa"
    /\ ret.raised = "None"
    /\ LET run == NfaToDfa(nfaTrans, nfaAccepting, nfa, <<>>)
       IN \E a \in DOMAIN heap :
             /\ heap[a].name = "p+q"
             /\ <<{"p", "q"}, a>> \in run.stands
             /\ <<{"p+q"}, a>> \in run.stands


(* C24: in the DFA built by nfa_to_dfa the initial state stands for the      *)
(* epsilon closure of {NFA initial} and is the only state flagged initial;   *)
(* every DFA state is accepting iff some NFA state of the subset it was      *)
(* made for is accepting; and a state has a transition on c exactly when     *)
(* the epsilon closure of move(subset, c) is non-empty, so transitions are   *)
(* on alphabet symbols only, never on the empty symbol, and the target is    *)
(* the state named after that closure.  The result may be incomplete.        *)
C24_SubsetStatesFlagsAndEdges ==
    (kind = "nfa" /\ ret.op = "nfa_to_dfa" /\ ret.raised = "None") =>
        LET run == NfaToDfa(nfaTrans, nfaAccepting, nfa, <<>>)
            closure(S) == EpsReach(nfaTrans, nfa.empty_char, S)
            move(S, c) == UNION {nfaTrans[x][c] : x \in S}
        IN /\ run.heap = heap
           /\ run.enqueued[1] = <<closure({nfa.initial}), dfa.initial>>
           /\ \A a \in DOMAIN heap :
                 /\ heap[a].initial <=> (a = dfa.initial)
                 /\ Cardinality({i \in DOMAIN run.enqueued : run.enqueued[i][2] = a}) = 1
           /\ \A i \in DOMAIN run.enqueued :
                 LET S == run.enqueued[i][1]
                     a == run.enqueued[i][2]
                 IN /\ heap[a].accepting <=> (S \cap nfaAccepting # {})
                    /\ DOMAIN heap[a].transitions
                          = {c \in Range(nfa.alphabet) : closure(move(S, c)) # {}}
                    /\ nfa.empty_char \notin DOMAIN heap[a].transitions
                    /\ \A c \in DOMAIN heap[a].transitions :
                          heap[heap[a].transitions[c]].name = SubsetName(closure(move(S, c)))

\* a DFA of two states: one made for a subset with an accepting and a non-accepting member, one without a transition on some alphabet symbol
C24_Witness ==
    /\ kind = "nfa"
    /\ ret.op = "nfa_to_dfa"
    /\ ret.raised = "None"
    /\ Len(heap) >= 2
    /\ ~DFAComplete(heap, dfa)
    /\ LET run == NfaToDfa(nfaTrans, nfaAccepting, nfa, <<>>)
       IN \E i \in DOMAIN run.enqueued :
             /\ run.enqueued[i][1] \cap nfaAccepting # {}
             /\ run.enqueued[i][1] \ nfaAccepting # {}
             /\ heap[run.enqueued[i][2]].accepting


(* the loop of nfa_to_dfa with the pending pair taken from any place of      *)
(* unmarked, not the last: the records the loop can end with                 *)
RECURSIVE AnyOrderRuns(_, _, _, _)
AnyOrderRuns(trans, accepting, n, st) ==
    IF st.err \/ Len(st.unmarked) = 0 THEN {st}
    ELSE UNION {AnyOrderRuns(trans, accepting, n,
                   NfaToDfaFor(trans, accepting, n, st.unmarked[i][1], st.unmarked[i][2], 1,
                      [st EXCEPT !.unmarked = SubSeq(@, 1, i - 1) \o SubSeq(@, i + 1, Len(@))])) :
                  i \in 1..Len(st.unmarked)}

\* a graph of DFAState objects told by names: each state's flags, and its transitions as symbol -> name
Shape(h) ==
    {[name |-> h[a].name, initial |-> h[a].initial, accepting |-> h[a].accepting,
      transitions |-> [c \in DOMAIN h[a].transitions |-> h[h[a].transitions[c]].name]] :
        a \in DOMAIN h}

(* C21: the DFA nfa_to_dfa produces does not depend on the order in which    *)
(* pending subset-states are taken from the worklist: taken as a stack (the   *)
(* code), as a queue, or in any other order, the state names, the accepting  *)
(* flags, the initial state and the transitions are the same.                *)
C21_WorklistOrderIrrelevant ==
    (kind = "subset" /\ ret.op = "nfa_to_dfa" /\ ret.raised = "None") =>
        \A st \in AnyOrderRuns(nfaTrans, nfaAccepting, nfa,
                               NfaToDfaStart(nfaTrans, nfaAccepting, nfa, <<>>)) :
            Shape(st.heap) = Shape(heap)

\* taken as a queue, the pairs give the state named "p+q" to another subset than the stack does
C21_Witness ==
    /\ kind = "subset"
    /\ ret.op = "nfa_to_dfa"
    /\ ret.raised = "None"
    /\ LET stack == NfaToDfa(nfaTrans, nfaAccepting, nfa, <<>>)
       IN \E st \in AnyOrderRuns(nfaTrans, nfaAccepting, nfa,
                                 NfaToDfaStart(nfaTrans, nfaAccepting, nfa, <<>>)) :
             /\ Shape(st.heap) # Shape(heap)
             /\ \E x \in Range(st.enqueued), y \in Range(stack.enqueued) :
                   /\ SubsetName(x[1]) = "p+q"
                   /\ SubsetName(y[1]) = "p+q"
                   /\ x[1] # y[1]

====
